---- MODULE Spec2Model ----
(***************************************************************************)
(* Model of crates/vector_store/src/parsing.rs: CodeContextRetriever, its  *)
(* whole-file extraction (_parse_entire_file) and its structural           *)
(* extraction (parse_file).                                                *)
(*                                                                         *)
(* Text is a sequence of characters, each a one-character string.  The     *)
(* fixed wording of the two templates, in which no placeholder can start   *)
(* or end, is kept in one piece; the placeholders are spelled out          *)
(* character by character, so that str::replace is a real substring        *)
(* replacement.  A path is a sequence of bytes; the byte InvalidByte       *)
(* stands for a byte that is not valid UTF-8, and Fence for the three      *)
(* backticks of the templates.                                             *)
(*                                                                         *)
(* The parser and the query cursor are tree-sitter's: Parser::parse yields *)
(* a tree or none, and the cursor yields match after match, each a list of *)
(* captures (capture index, node byte range); both are drawn from all the  *)
(* values the bounds allow.  self.cursor keeps nothing between two calls   *)
(* of matches(), so only self.parser is state of the extractor.  A call is *)
(* followed step by step: its first part (ParseFile), every match          *)
(* (NextMatch), every capture (ProcessCapture), the end of the loop body   *)
(* (EndMatch) and the return (Return).  unwrap() on an Err or a None is a  *)
(* panic, after which the extractor takes no further step.                 *)
(***************************************************************************)
EXTENDS Integers, Sequences, FiniteSets

(* ---------------------------------------------------------------- bounds *)
\* matches the query cursor yields in one call, at most
MaxMatches == 2
\* captures of one match, at most
MaxCaptures == 3

(* ------------------------------------------------------- Option<T> values *)
None == [some |-> FALSE, val |-> <<>>]
Some(v) == [some |-> TRUE, val |-> v]

(* ------------------------------------------------------------ str methods *)
StartsWith(s, pat) ==
    /\ Len(s) >= Len(pat)
    /\ SubSeq(s, 1, Len(pat)) = pat

\* str::replace(pat, to): every non-overlapping occurrence, left to right
RECURSIVE Replace(_, _, _)
Replace(s, pat, to) ==
    IF s = <<>> THEN <<>>
    ELSE IF StartsWith(s, pat)
         THEN to \o Replace(SubSeq(s, Len(pat) + 1, Len(s)), pat, to)
         ELSE <<Head(s)>> \o Replace(Tail(s), pat, to)

\* [&str]::join(sep)
RECURSIVE Join(_, _)
Join(xs, sep) ==
    IF xs = <<>> THEN <<>>
    ELSE IF Len(xs) = 1 THEN xs[1]
    ELSE xs[1] \o sep \o Join(Tail(xs), sep)

UpperCase == <<"A","B","C","D","E","F","G","H","I","J","K","L","M",
               "N","O","P","Q","R","S","T","U","V","W","X","Y","Z">>
LowerCase == <<"a","b","c","d","e","f","g","h","i","j","k","l","m",
               "n","o","p","q","r","s","t","u","v","w","x","y","z">>

\* str::to_lowercase
ToLowercase(s) ==
    [i \in 1..Len(s) |->
        IF \E k \in 1..Len(UpperCase) : UpperCase[k] = s[i]
        THEN LowerCase[CHOOSE k \in 1..Len(UpperCase) : UpperCase[k] = s[i]]
        ELSE s[i]]

\* Range<usize>
Range(start, end) == [start |-> start, end |-> end]

\* str::get(range): the slice, or None when the range is not inside the text
Get(text, r) ==
    IF r.start <= r.end /\ r.end <= Len(text)
    THEN Some(SubSeq(text, r.start + 1, r.end))
    ELSE None

\* Vec::contains
Contains(xs, x) == \E i \in 1..Len(xs) : xs[i] = x

(* ------------------------------------------------------------------ paths *)
InvalidByte == "xFF"
ReplacementChar == "uFFFD"

\* Path::to_str: None unless the path is valid UTF-8
ToStr(p) ==
    IF \E i \in 1..Len(p) : p[i] = InvalidByte THEN None ELSE Some(p)

\* Path::to_string_lossy: invalid bytes become U+FFFD
ToStringLossy(p) ==
    [i \in 1..Len(p) |-> IF p[i] = InvalidByte THEN ReplacementChar ELSE p[i]]

(* -------------------------------------------------------------- constants *)
\* the three backticks that open and close the snippet
Fence == "FENCE"

PathPlaceholder == <<"<","p","a","t","h",">">>
LanguagePlaceholder == <<"<","l","a","n","g","u","a","g","e",">">>
ItemPlaceholder == <<"<","i","t","e","m",">">>

CODE_CONTEXT_TEMPLATE ==
    <<"The below code snippet is from file '">> \o PathPlaceholder
        \o <<"'\n\n", Fence>> \o LanguagePlaceholder
        \o <<"\n">> \o ItemPlaceholder \o <<"\n", Fence>>

ENTIRE_FILE_TEMPLATE ==
    <<"The below snippet is from file '">> \o PathPlaceholder
        \o <<"'\n\n", Fence>> \o LanguagePlaceholder
        \o <<"\n">> \o ItemPlaceholder \o <<"\n", Fence>>

TOML == <<"T","O","M","L">>
YAML == <<"Y","A","M","L">>
JSON == <<"J","S","O","N">>
CSS == <<"C","S","S">>
PARSEABLE_ENTIRE_FILE_TYPES == <<TOML, YAML, JSON, CSS>>

(* --------------------------------------------------------------- Document *)
Document(name, range, content, embedding) ==
    [name |-> name, range |-> range, content |-> content, embedding |-> embedding]

\* Result<Vec<Document>>
Ok(v) == [ok |-> TRUE, val |-> v]
Err(msg) == [ok |-> FALSE, val |-> msg]

(* ------------------------------------------------- the language registry *)
\* EmbeddingConfig: the query's capture indices ("item", "name", "context")
EmbeddingConfig(context_capture_ix) ==
    [item_capture_ix |-> 0, name_capture_ix |-> 1,
     context_capture_ix |-> context_capture_ix]

\* Grammar: its tree-sitter language and its optional embedding query
Grammar(ts_language, embedding_config) ==
    [ts_language |-> ts_language, embedding_config |-> embedding_config]

\* Language: name() and grammar()
Language(name, grammar) == [name |-> name, grammar |-> grammar]

(* ---------------------------------------------------- CodeContextRetriever *)
\* CodeContextRetriever::new: a parser with no language set
New == [parser |-> None]

\* _parse_entire_file
_parse_entire_file(relative_path, language_name, content) ==
    LET document_span ==
            Replace(
                Replace(
                    Replace(ENTIRE_FILE_TEMPLATE, PathPlaceholder,
                            ToStringLossy(relative_path)),
                    LanguagePlaceholder, language_name),
                <<"i","t","e","m">>, content)
    IN  Ok(<<Document(language_name, Range(0, Len(content)), document_span, <<>>)>>)

\* the whole-file test at the head of parse_file
IsEntireFileType(name) == Contains(PARSEABLE_ENTIRE_FILE_TYPES, name)

\* Prologue with the grammar looked up before the whole-file test
Prologue_GrammarFirst(language, parsed) ==
    IF ~language.grammar.some THEN "no grammar for language"
    ELSE IF IsEntireFileType(language.name) THEN "entire file"
    ELSE IF ~language.grammar.val.embedding_config.some THEN "no embedding queries"
    ELSE IF ~language.grammar.val.ts_language.compatible THEN "set_language panics"
    ELSE IF ~parsed THEN "parsing failed"
    ELSE "query"

\* Prologue with one message for both missing parts
Prologue_OneMessage(language, parsed) ==
    IF IsEntireFileType(language.name) THEN "entire file"
    ELSE IF ~language.grammar.some THEN "no grammar for language"
    ELSE IF ~language.grammar.val.embedding_config.some THEN "no grammar for language"
    ELSE IF ~language.grammar.val.ts_language.compatible THEN "set_language panics"
    ELSE IF ~parsed THEN "parsing failed"
    ELSE "query"

\* parse_file up to the query loop: which exit the call takes.  parsed says
\* whether Parser::parse yields a tree.
Prologue(language, parsed) ==
    IF IsEntireFileType(language.name) THEN "entire file"
    ELSE IF ~language.grammar.some THEN "no grammar for language"
    ELSE IF ~language.grammar.val.embedding_config.some THEN "no embedding queries"
    ELSE IF ~language.grammar.val.ts_language.compatible THEN "set_language panics"
    ELSE IF ~parsed THEN "parsing failed"
    ELSE "query"

\* NewNameRanges with the vector kept from call to call
NewNameRanges_Kept(prev) == prev

\* let mut name_ranges = vec![]; prev is what an earlier call left behind
NewNameRanges(prev) == <<>>

\* NameRangeConsumed without the containment test
NameRangeConsumed_Never(name_ranges, name_range) == FALSE

\* name_ranges.contains(&name_range)
NameRangeConsumed(name_ranges, name_range) == Contains(name_ranges, name_range)

\* PushNameRange that forgets the range
PushNameRange_Skip(name_ranges, name_range) == name_ranges

\* name_ranges.push(name_range.clone())
PushNameRange(name_ranges, name_range) == Append(name_ranges, name_range)

\* RecordItem that keeps the first item capture of the match
RecordItem_First(loc, node, content) ==
    IF loc.byte_range.some THEN loc
    ELSE [loc EXCEPT !.byte_range = Some(node), !.item = Get(content, node)]

\* the item branch: byte_range and item are overwritten by every item capture
RecordItem(loc, node, content) ==
    [loc EXCEPT !.byte_range = Some(node), !.item = Get(content, node)]

\* the name branch, after the containment test
RecordName(loc, node, content) ==
    [loc EXCEPT !.name_ranges = PushNameRange(@, node),
                !.name = IF Get(content, node).some
                         THEN Append(@, Get(content, node).val) ELSE @]

\* the context branch
RecordContext(loc, capture, content, config) ==
    IF /\ config.context_capture_ix.some
       /\ capture.index = config.context_capture_ix.val
       /\ Get(content, capture.node).some
    THEN [loc EXCEPT !.context_spans = Append(@, Get(content, capture.node).val)]
    ELSE loc

\* the body of "for capture in mat.captures"
CaptureStep(loc, capture, content, config) ==
    IF capture.index = config.item_capture_ix
    THEN RecordContext(RecordItem(loc, capture.node, content), capture, content, config)
    ELSE IF capture.index = config.name_capture_ix
    THEN IF NameRangeConsumed(loc.name_ranges, capture.node)
         THEN loc   \* continue
         ELSE RecordContext(RecordName(loc, capture.node, content),
                            capture, content, config)
    ELSE RecordContext(loc, capture, content, config)

\* the locals a match starts with
MatchLocals(name_ranges) ==
    [name |-> <<>>, item |-> None, byte_range |-> None, context_spans |-> <<>>,
     name_ranges |-> name_ranges]

\* ItemBody without the newline between the context and the item
ItemBody_NoNewline(context_spans, item) ==
    IF context_spans = <<>> THEN item
    ELSE Join(context_spans, <<"\n">>) \o item

\* the chunk body: the context lines, a newline, the item
ItemBody(context_spans, item) ==
    IF context_spans = <<>> THEN item
    ELSE Join(context_spans, <<"\n">>) \o <<"\n">> \o item

\* CODE_CONTEXT_TEMPLATE with its three replacements
DocumentText(path_text, language_name, item) ==
    Replace(
        Replace(
            Replace(CODE_CONTEXT_TEMPLATE, PathPlaceholder, path_text),
            LanguagePlaceholder, ToLowercase(language_name)),
        ItemPlaceholder, item)

\* PushDocument at the front
PushDocument_Front(documents, document) == <<document>> \o documents

\* documents.push(..)
PushDocument(documents, document) == Append(documents, document)

\* whether the match is kept: item.zip(byte_range) is Some and name is not empty
Emits(loc) == loc.item.some /\ loc.byte_range.some /\ loc.name # <<>>

\* The end of one iteration of "for mat in ..": the documents after it, and
\* whether relative_path.to_str().unwrap() panicked.
EndOfMatch(loc, documents, relative_path, language) ==
    IF ~Emits(loc)
    THEN [documents |-> documents, panicked |-> FALSE]
    ELSE IF ~ToStr(relative_path).some
    THEN [documents |-> documents, panicked |-> TRUE]
    ELSE [documents |->
              PushDocument(documents,
                  Document(Join(loc.name, <<" ">>), loc.byte_range.val,
                           DocumentText(ToStr(relative_path).val, language.name,
                                        ItemBody(loc.context_spans, loc.item.val)),
                           <<>>)),
          panicked |-> FALSE]

(* ------------------------------------------------------------ the inputs *)
Rust == <<"R","u","s","t">>
LanguageNames == {TOML, YAML, JSON, CSS, Rust}

Paths == {<<"a">>, ItemPlaceholder, <<InvalidByte>>}
Contents == {<<"x">>, <<"x","y">>}

\* the language registry's entries: without a grammar, with a grammar that
\* has no embedding query, and with one that has it (without and with a
\* context capture); the last of a tree-sitter version the parser rejects
Shapes == {"no grammar", "no query", "query", "query with context", "incompatible"}
LanguageOf(n, shape) ==
    IF shape = "no grammar" THEN Language(n, None)
    ELSE Language(n, Some(Grammar(
            [name |-> n, compatible |-> shape # "incompatible"],
            IF shape = "no query" THEN None
            ELSE IF shape = "query" THEN Some(EmbeddingConfig(None))
            ELSE Some(EmbeddingConfig(Some(2))))))
Languages == {LanguageOf(n, shape) : n \in LanguageNames, shape \in Shapes}

\* Parser::parse: the tree of the text under the parser's language
Parse(parser, text) == [language |-> parser.val.name, len |-> Len(text)]

\* the byte ranges of the tree's nodes: the root and its first child
NodeRanges(t) == {Range(0, t.len), Range(0, 1)}

\* the captures a match of the query can hold: capture indices 0..2 on nodes
QueryCaptures(t) == [index : {0, 1, 2}, node : NodeRanges(t)]

(* -------------------------------------------------------------- the state *)
VARIABLES
    parser,         \* self.parser: the language set, if any
    pc,             \* "idle", "matching", "capturing", "returned", "panicked"
    relative_path, content, language,   \* the arguments of the call
    parse_ok,       \* whether Parser::parse yields a tree in this call
    exit,           \* the exit the call took (Prologue)
    tree,           \* the tree of the call, once parsed
    documents,      \* the local documents
    loc,            \* name_ranges and the locals of the match at hand
    nmatches,       \* matches the cursor has yielded
    ncaptures,      \* captures of the match at hand already looked at
    result,         \* what the call returned
    fresh,          \* the same call made on CodeContextRetriever::new()
    seen,           \* history: the captures of the match at hand
    met,            \* history: the ranges of the name captures met in the call
    dup,            \* history: the range of the capture just looked at, when it
                    \*          is a name capture that an earlier match held too
    docSrc,         \* history: per document, the captures of its match
    stale           \* history: the call has just begun, on an extractor whose
                    \*          earlier call left name ranges behind

vars == <<parser, pc, relative_path, content, language, parse_ok, exit, tree,
          documents, loc, nmatches, ncaptures, result, fresh, seen, met, dup,
          docSrc, stale>>

NoCaptures == [item |-> None, names |-> <<>>, context |-> <<>>]

Init ==
    /\ parser = New.parser
    /\ pc = "idle"
    /\ relative_path = <<>>
    /\ content = <<>>
    /\ language = Language(Rust, None)
    /\ parse_ok = FALSE
    /\ exit = "none"
    /\ tree = None
    /\ documents = <<>>
    /\ loc = MatchLocals(<<>>)
    /\ nmatches = 0
    /\ ncaptures = 0
    /\ result = None
    /\ fresh = [parser |-> New.parser, tree |-> None, documents |-> <<>>,
                loc |-> MatchLocals(<<>>), result |-> None]
    /\ seen = NoCaptures
    /\ met = {}
    /\ dup = None
    /\ docSrc = <<>>
    /\ stale = FALSE

\* the state of an extractor that leaves parse_file's first part by exit e
Entered(self_parser, prev_name_ranges, path, text, lang, e) ==
    LET set == e \in {"parsing failed", "query"}
        p == IF set THEN Some(lang.grammar.val.ts_language) ELSE self_parser
    IN  [parser |-> p,
         tree |-> IF e = "query" THEN Some(Parse(p, text)) ELSE None,
         documents |-> <<>>,
         loc |-> MatchLocals(IF e = "query" THEN NewNameRanges(prev_name_ranges)
                             ELSE prev_name_ranges),
         result |-> IF e = "entire file"
                    THEN Some(_parse_entire_file(path, lang.name, text))
                    ELSE IF e \in {"query", "set_language panics"} THEN None
                    ELSE Some(Err(e))]

\* parse_file, from the call to the start of the query loop
ParseFile(path, text, lang, parsed) ==
    /\ pc = "idle"
    /\ LET e == Prologue(lang, parsed)
           real == Entered(parser, loc.name_ranges, path, text, lang, e)
       IN  /\ relative_path' = path
           /\ content' = text
           /\ language' = lang
           /\ parse_ok' = parsed
           /\ exit' = e
           /\ parser' = real.parser
           /\ tree' = real.tree
           /\ documents' = real.documents
           /\ loc' = real.loc
           /\ result' = real.result
           /\ pc' = IF e = "query" THEN "matching"
                    ELSE IF e = "set_language panics" THEN "panicked"
                    ELSE "returned"
           /\ fresh' = Entered(New.parser, <<>>, path, text, lang, e)
    /\ nmatches' = 0
    /\ ncaptures' = 0
    /\ seen' = NoCaptures
    /\ met' = {}
    /\ dup' = None
    /\ docSrc' = <<>>
    /\ stale' = (loc.name_ranges # <<>>)

\* the cursor yields one more match: the locals of the loop body are made
NextMatch ==
    /\ pc = "matching"
    /\ nmatches < MaxMatches
    /\ pc' = "capturing"
    /\ nmatches' = nmatches + 1
    /\ ncaptures' = 0
    /\ loc' = MatchLocals(loc.name_ranges)
    /\ fresh' = [fresh EXCEPT !.loc = MatchLocals(fresh.loc.name_ranges)]
    /\ seen' = NoCaptures
    /\ dup' = None
    /\ UNCHANGED <<parser, relative_path, content, language, parse_ok, exit, tree,
                   documents, result, met, docSrc>>
    /\ stale' = FALSE

\* what the history keeps of the capture c: the last item capture, the name
\* captures whose range no earlier capture of the call had, the context captures
Seen(s, m, c, config) ==
    IF c.index = config.item_capture_ix THEN [s EXCEPT !.item = Some(c.node)]
    ELSE IF c.index = config.name_capture_ix
    THEN IF c.node \in m THEN s ELSE [s EXCEPT !.names = Append(@, c.node)]
    ELSE IF config.context_capture_ix.some /\ c.index = config.context_capture_ix.val
    THEN [s EXCEPT !.context = Append(@, c.node)]
    ELSE s

\* whether c is a name capture with the range of a name capture of an earlier match
MetAgain(s, m, c, config) ==
    /\ c.index = config.name_capture_ix
    /\ c.node \in m
    /\ \A i \in 1..Len(s.names) : s.names[i] # c.node

\* one capture of the match at hand
ProcessCapture ==
    /\ pc = "capturing"
    /\ ncaptures < MaxCaptures
    /\ \E c \in QueryCaptures(tree.val) :
        LET config == language.grammar.val.embedding_config.val
        IN  /\ loc' = CaptureStep(loc, c, content, config)
            /\ fresh' = [fresh EXCEPT !.loc = CaptureStep(fresh.loc, c, content, config)]
            /\ seen' = Seen(seen, met, c, config)
            /\ met' = IF c.index = config.name_capture_ix THEN met \cup {c.node}
                       ELSE met
            /\ dup' = IF MetAgain(seen, met, c, config) THEN Some(c.node) ELSE None
    /\ ncaptures' = ncaptures + 1
    /\ UNCHANGED <<parser, pc, relative_path, content, language, parse_ok, exit,
                   tree, documents, nmatches, result, docSrc, stale>>

\* the match has no further capture: the document is made, or the match dropped
EndMatch ==
    /\ pc = "capturing"
    /\ LET real == EndOfMatch(loc, documents, relative_path, language)
           twin == EndOfMatch(fresh.loc, fresh.documents, relative_path, language)
       IN  /\ documents' = real.documents
           /\ pc' = IF real.panicked THEN "panicked" ELSE "matching"
           /\ fresh' = [fresh EXCEPT !.documents = twin.documents]
           /\ docSrc' = IF Len(real.documents) > Len(documents)
                        THEN Append(docSrc, seen)
                        ELSE docSrc
    /\ dup' = None
    /\ UNCHANGED <<parser, relative_path, content, language, parse_ok, exit, tree,
                   loc, nmatches, ncaptures, result, seen, met, stale>>

\* return Ok(documents), when the cursor has no further match
Return ==
    /\ pc = "matching"
    /\ pc' = "returned"
    /\ result' = Some(Ok(documents))
    /\ fresh' = [fresh EXCEPT !.result = Some(Ok(fresh.documents))]
    /\ dup' = None
    /\ UNCHANGED <<parser, relative_path, content, language, parse_ok, exit, tree,
                   documents, loc, nmatches, ncaptures, seen, met, docSrc>>
    /\ stale' = FALSE

\* the caller takes the result; the extractor waits for its next call.  Of the
\* call only the parser's language stays, and (for NewNameRanges) the last
\* value of name_ranges.
Drop ==
    /\ pc = "returned"
    /\ pc' = "idle"
    /\ relative_path' = <<>>
    /\ content' = <<>>
    /\ language' = Language(Rust, None)
    /\ parse_ok' = FALSE
    /\ exit' = "none"
    /\ tree' = None
    /\ documents' = <<>>
    /\ loc' = MatchLocals(loc.name_ranges)
    /\ nmatches' = 0
    /\ ncaptures' = 0
    /\ result' = None
    /\ fresh' = [parser |-> New.parser, tree |-> None, documents |-> <<>>,
                 loc |-> MatchLocals(<<>>), result |-> None]
    /\ seen' = NoCaptures
    /\ met' = {}
    /\ dup' = None
    /\ docSrc' = <<>>
    /\ stale' = FALSE
    /\ UNCHANGED parser

Next ==
    \/ \E path \in Paths, text \in Contents, lang \in Languages, parsed \in BOOLEAN :
           ParseFile(path, text, lang, parsed)
    \/ NextMatch
    \/ ProcessCapture
    \/ EndMatch
    \/ Return
    \/ Drop

Spec == Init /\ [][Next]_vars

(* ------------------------------------------------------------ properties *)
WholeFileNames == {TOML, YAML, JSON, CSS}

\* the text of the byte range r of the file
Text(r) == SubSeq(content, r.start + 1, r.end)

\* the documents the call returned, if it returned any
Returned == IF result.some /\ result.val.ok THEN result.val.val ELSE <<>>

Failed(msg) ==
    /\ pc = "returned"
    /\ result.some
    /\ ~result.val.ok
    /\ result.val.val = msg
    /\ documents = <<>>

IsPrefix(xs, ys) == Len(xs) =< Len(ys) /\ SubSeq(ys, 1, Len(xs)) = xs

\* whether the match of the document i met the name range r first
NamedBy(i, r) == \E k \in 1..Len(docSrc[i].names) : docSrc[i].names[k] = r

\* the texts of name ranges, one space between two
RECURSIVE Spaced(_)
Spaced(rs) ==
    IF rs = <<>> THEN <<>>
    ELSE IF Len(rs) = 1 THEN Text(rs[1])
    ELSE Text(rs[1]) \o <<" ">> \o Spaced(Tail(rs))

\* the texts of context ranges, a newline after each
RECURSIVE Lines(_)
Lines(rs) ==
    IF rs = <<>> THEN <<>> ELSE Text(rs[1]) \o <<"\n">> \o Lines(Tail(rs))

\* the chunk body of a match with the captures d
Body(d) == Lines(d.context) \o Text(d.item.val)

\* C1: a call with a display name of the whole-file set returns, with success
\* and exactly one chunk of range [0, len(content)) named by the display name,
\* whatever grammar or query the language has.
C1_WholeFile ==
    (pc # "idle" /\ language.name \in WholeFileNames) =>
        /\ pc = "returned"
        /\ result.some
        /\ result.val.ok
        /\ Len(result.val.val) = 1
        /\ result.val.val[1].range = Range(0, Len(content))
        /\ result.val.val[1].name = language.name

C1_Witness ==
    /\ pc = "returned"
    /\ language.name = JSON
    /\ ~language.grammar.some
    /\ Len(Returned) = 1
    /\ Returned[1].range = Range(0, 2)

\* C2: the whole-file chunk's content is the file-level template with <path>
\* replaced by the path's text, then <language> by the display name, then the
\* whole <item> marker by the raw content.
C2_WholeFileContent ==
    (pc = "returned" /\ exit = "entire file") =>
        Returned[1].content =
            Replace(
                Replace(
                    Replace(ENTIRE_FILE_TEMPLATE, PathPlaceholder,
                            ToStringLossy(relative_path)),
                    LanguagePlaceholder, language.name),
                ItemPlaceholder, content)

C4_ExactlyOne ==
    dup.some =>
        Cardinality({i \in 1..Len(docSrc) : NamedBy(i, dup.val)}) = 1

\* C4, amended: at most one chunk's name holds the text of a name range, the
\* chunk of the match that met the range first, and no chunk when that match
\* emits none: every chunk's name is the texts of the name ranges its match
\* met first, and no range is among those of two chunks.
C4_AtMostOne ==
    /\ Len(documents) = Len(docSrc)
    /\ \A i \in 1..Len(documents) : documents[i].name = Spaced(docSrc[i].names)
    /\ pc = "capturing" => loc.name = [k \in 1..Len(seen.names) |-> Text(seen.names[k])]
    /\ \A r \in met : Cardinality({i \in 1..Len(docSrc) : NamedBy(i, r)}) =< 1

C4_Witness ==
    /\ dup.some
    /\ \E i \in 1..Len(documents) :
        /\ NamedBy(i, dup.val)
        /\ documents[i].name = Text(dup.val)

\* C5: a match yields a chunk exactly when it has an item capture and a name
\* capture that no earlier capture of the call had; dropping it is no error.
C5_Emission ==
    [][(pc = "capturing" /\ pc' # "capturing") =>
          /\ pc' = "matching"
          /\ IF seen.item.some /\ seen.names # <<>>
             THEN Len(documents') = Len(documents) + 1
             ELSE documents' = documents]_vars

\* C6: every chunk's range is the byte range of the last item capture of its
\* match, and its embedding is empty.
C6_Range ==
    /\ Len(documents) = Len(docSrc)
    /\ \A i \in 1..Len(documents) :
        /\ docSrc[i].item.some
        /\ documents[i].range = docSrc[i].item.val
        /\ documents[i].embedding = <<>>
    /\ pc = "capturing" =>
        /\ loc.byte_range.some = seen.item.some
        /\ seen.item.some => loc.byte_range.val = seen.item.val

C6_Witness ==
    \E i \in 1..Len(documents) :
        /\ documents[i].range = Range(0, 1)
        /\ NamedBy(i, Range(0, 2))
        /\ docSrc[i].context = <<Range(0, 2)>>

C8_NoLeak ==
    pc # "idle" =>
        /\ (pc = "matching" /\ nmatches = 0) => loc.name_ranges = <<>>
        /\ tree = fresh.tree
        /\ documents = fresh.documents
        /\ exit = "query" => loc = fresh.loc
        /\ result.some = fresh.result.some
        /\ result.some =>
              /\ result.val.ok = fresh.result.val.ok
              /\ result.val.val = fresh.result.val.val

C8_Witness ==
    /\ pc = "matching"
    /\ nmatches = 0
    /\ stale
    /\ loc.name_ranges = <<>>

\* C9: the chunks are in match order, at most one per match: a match that
\* has an item and a first-met name appends its chunk after the chunks of
\* the earlier matches, nothing else changes the list during the call, and
\* the chunks are never more than the matches.
C9_Order ==
    /\ [](Len(documents) =< nmatches)
    /\ [][\/ documents' = documents
          \/ pc = "returned"
          \/ /\ pc = "capturing"
             /\ pc' = "matching"
             /\ seen.item.some /\ seen.names # <<>>
             /\ Len(documents') = Len(documents) + 1
             /\ SubSeq(documents', 1, Len(documents)) = documents
             /\ documents'[Len(documents')].range = seen.item.val]_vars

C9_Witness ==
    /\ Len(documents) = 2
    /\ documents[1].range = Range(0, 2)
    /\ documents[2].range = Range(0, 1)

\* C10: the consumed list holds, once each, the ranges of all name captures
\* met so far in the call, whether or not their matches emitted a chunk; no
\* range is among the names of two chunks; the list only grows in the call.
C10_Consumed ==
    /\ [](exit = "query" =>
            /\ {loc.name_ranges[k] : k \in 1..Len(loc.name_ranges)} = met
            /\ Len(loc.name_ranges) = Cardinality(met)
            /\ \A r \in met :
                  Cardinality({i \in 1..Len(docSrc) : NamedBy(i, r)}) =< 1)
    /\ [][pc # "idle" => IsPrefix(loc.name_ranges, loc'.name_ranges)]_vars

C10_Witness ==
    /\ pc = "matching"
    /\ nmatches = 1
    /\ loc.name_ranges # <<>>
    /\ documents = <<>>

====
